---- MODULE Spec2Model ----
(***************************************************************************)
(* Model of src/src/agent_tools/database.py: setup_database (the CSV load  *)
(* and its normalisation) and DatabaseManager (the record store, the       *)
(* append operation and the read-only queries built on it).                *)
(*                                                                         *)
(* A DataFrame is a sequence of rows plus the set of its column names.     *)
(* A row is a function from every column name of the vocabulary to a       *)
(* value; a cell of a column the frame does not have, a missing CSV cell   *)
(* and a Python None stored in a frame are all the missing value: NaN in a *)
(* numeric column (an integer no quantity of the model takes) and NaNText  *)
(* in a text column.  A mean is kept exact, as the pair [sum, n].          *)
(***************************************************************************)
EXTENDS Integers, Sequences, FiniteSets, TLC

\* ------------------------------------------------------------------ bounds
MaxRows == 2        \* rows of the CSV file
MaxAppends == 1     \* calls of add_production_record in one run

\* ------------------------------------------------------- program constants
LOW_STOCK_PERIOD == 30     \* get_low_stock_products: period_days=30
DEFAULT_PERIOD == 90       \* default period_days of get_inventory_data
DEFAULT_THRESHOLD == 7     \* default threshold_days of get_low_stock_products

\* ------------------------------------------------------------------ values
NaN == 0 - 999
NaNText == "NaN"
IsNum(v) == v # NaN
None == [kind |-> "None"]

P_TYPE == "Product type"
DATE == "date"
STOCK == "current_stock_level"
SOLD == "daily_sold_units"
PRODUCTION == "daily_production_units"
TEMP == "temp_celsius"
WEATHER == "weather_condition"
PROMO == "promotion_active"
STOCKOUT == "is_stockout"
PRICE == "Price"

required_cols == {P_TYPE, DATE, STOCK, SOLD}
AllColumns ==
  required_cols \cup {PRODUCTION, TEMP, WEATHER, PROMO, STOCKOUT, PRICE}

\* Calendar dates as they are written in the CSV file and passed to append;
\* pd.to_datetime turns the text into a point of the time line (a day number).
DateTexts == <<"2024-01-01", "2024-01-02", "2024-01-03">>
to_datetime(text) == CHOOSE i \in 1..Len(DateTexts) : DateTexts[i] = text

\* ------------------------------------------------------------ the CSV file
RawRow(p, d, stock, sold, promo, flag, price, weather) ==
  (P_TYPE :> p) @@ (DATE :> d) @@ (STOCK :> stock) @@ (SOLD :> sold) @@
  (PRODUCTION :> NaN) @@ (TEMP :> NaN) @@ (WEATHER :> weather) @@
  (PROMO :> promo) @@ (STOCKOUT :> flag) @@ (PRICE :> price)

\* The lines a CSV file is made of.  They cover: a negative, a zero and a
\* positive raw stock level; a negative, a missing, a zero and a positive raw
\* sold value; both promotion values; two products; a supplied stockout flag
\* that agrees and one that disagrees with the stock level.
RawRows ==
  { RawRow("A", "2024-01-01", 2, 1, 0, 0, 5, "sunny"),
    RawRow("A", "2024-01-02", 0 - 1, 2, 1, 0, 7, "rainy"),
    RawRow("A", "2024-01-03", 0, 0, 0, 1, 5, "sunny"),
    RawRow("B", "2024-01-01", 4, 0 - 1, 0, 1, 7, "rainy"),
    RawRow("B", "2024-01-03", 1, NaN, 1, 0, 5, NaNText) }

\* The header lines: the required columns with every optional column of the
\* rows above, and the required columns only.
Headers ==
  { required_cols \cup {WEATHER, PROMO, STOCKOUT, PRICE},
    required_cols }

\* The header lines of a file that lacks one of the required columns.
HeadersLacking == { required_cols \ {c} : c \in required_cols }

\* The file of the stockout scenario: product A on three consecutive days,
\* stock levels 10, 5, 0 and 5 units sold each day, required columns only.
ScenarioFile ==
  [header |-> required_cols,
   rows |-> << RawRow("A", "2024-01-01", 10, 5, 0, 0, 5, "sunny"),
               RawRow("A", "2024-01-02", 5, 5, 0, 0, 5, "sunny"),
               RawRow("A", "2024-01-03", 0, 5, 0, 0, 5, "sunny") >>]

SeqsUpTo(S, n) == UNION { [1..k -> S] : k \in 0..n }

VARIABLES
  pc,          \* "start": the file exists, no store yet; "ready": store
               \* built; "failed": setup_database raised, there is no store
  csv,         \* the file: [header, rows]
  data,        \* DatabaseManager.data, the rows of the frame
  columns,     \* DatabaseManager.data.columns
  nAppends,    \* number of add_production_record calls so far
  new_record,  \* <<new_record>> of the last add_production_record, else <<>>
  op,          \* the last operation and its arguments
  result       \* what the last operation returned

vars == <<pc, csv, data, columns, nAppends, new_record, op, result>>

\* ----------------------------------------------------------------- helpers
Range(s) == { s[i] : i \in DOMAIN s }

IsSortedByDate(s) == \A i, j \in DOMAIN s : i < j => s[i][DATE] <= s[j][DATE]

\* DataFrame.sort_values('date'): the default kind is quicksort, which is not
\* stable, so rows of equal date come out in any order.
RECURSIVE Perms(_)
Perms(S) == IF S = {} THEN {<<>>}
            ELSE UNION { { <<x>> \o p : p \in Perms(S \ {x}) } : x \in S }

\* Mutant of sort_values: the frame is left in the order it had.
sort_values_unsorted(s) == {s}

\* Mutant of sort_values: the latest date first.
sort_values_descending(s) ==
  { [i \in DOMAIN s |-> s[p[i]]] :
      p \in { q \in Perms(DOMAIN s) :
                \A i \in 1..(Len(s) - 1) : s[q[i]][DATE] >= s[q[i + 1]][DATE] } }

sort_values(s) ==
  { [i \in DOMAIN s |-> s[p[i]]] :
      p \in { q \in Perms(DOMAIN s) :
                \A i \in 1..(Len(s) - 1) : s[q[i]][DATE] <= s[q[i + 1]][DATE] } }

RECURSIVE SumSeq(_)
SumSeq(s) == IF s = <<>> THEN 0 ELSE Head(s) + SumSeq(Tail(s))

\* The cells of one column, in row order, missing cells dropped (the
\* reductions of pandas skip NaN).
Column(df, col) == SelectSeq([i \in DOMAIN df |-> df[i][col]], IsNum)

Sum(df, col) == SumSeq(Column(df, col))
Mean(df, col) == [sum |-> Sum(df, col), n |-> Len(Column(df, col))]

Max(S) == CHOOSE x \in S : \A y \in S : y <= x
Min(S) == CHOOSE x \in S : \A y \in S : x <= y

\* ---------------------------------------------------------- setup_database
TextColumns == {P_TYPE, DATE, WEATHER}
Missing(c) == IF c \in TextColumns THEN NaNText ELSE NaN

\* pd.read_csv: the cells of the columns named in the header.
read_csv(file) ==
  [i \in DOMAIN file.rows |->
     [c \in AllColumns |->
        IF c \in file.header THEN file.rows[i][c] ELSE Missing(c)]]

\* Mutant of clip_lower0: the clip is left out.
clip_lower0_unclipped(v) == v

clip_lower0(v) == IF IsNum(v) /\ v < 0 THEN 0 ELSE v
fillna0(v) == IF v = NaN THEN 0 ELSE v

\* Lines 29 and 39-57 on one row: the date is parsed, the stockout flag is
\* derived from the stock level as read when the file has no such column,
\* missing sold and production values become 0, and only then the stock
\* level and the sold units are clipped.
setup_row(r, header) ==
  LET flag == IF STOCKOUT \notin header
              THEN (IF r[STOCK] = 0 THEN 1 ELSE 0)
              ELSE r[STOCKOUT]
  IN [r EXCEPT ![DATE] = to_datetime(r[DATE]),
               ![STOCKOUT] = flag,
               ![SOLD] = clip_lower0(fillna0(r[SOLD])),
               ![PRODUCTION] = IF PRODUCTION \in header
                               THEN fillna0(r[PRODUCTION]) ELSE r[PRODUCTION],
               ![STOCK] = clip_lower0(r[STOCK])]

setup_columns(header) == header \cup {STOCKOUT}

\* The frames setup_database can return for a file.
setup_database(file) ==
  LET df == read_csv(file)
  IN sort_values([i \in DOMAIN df |-> setup_row(df[i], file.header)])

Init ==
  /\ pc = "start"
  /\ csv \in [header : Headers \cup HeadersLacking,
              rows : SeqsUpTo(RawRows, MaxRows)] \cup {ScenarioFile}
  /\ data = <<>>
  /\ columns = {}
  /\ nAppends = 0
  /\ new_record = <<>>
  /\ op = [name |-> "none"]
  /\ result = None

\* DatabaseManager.__init__ on a frame: the stockout flag is derived when the
\* frame has no such column (lines 89-91); the dates are already parsed.
init_row(r, cols) ==
  IF STOCKOUT \notin cols
  THEN [r EXCEPT ![STOCKOUT] = IF r[STOCK] = 0 THEN 1 ELSE 0]
  ELSE r

\* The values of self.data that __init__ can leave (line 98 sorts).
DatabaseManager_init(df, cols) ==
  sort_values([i \in DOMAIN df |-> init_row(df[i], cols)])

Raised(error) == [kind |-> "raised", error |-> error]

\* The exception setup_database ends with (`except Exception: ... raise`,
\* lines 67-69), "none" when it returns: data['date'] of line 29 raises
\* KeyError when the file has no date column, before the validation of lines
\* 33-37 raises ValueError for the missing columns.
setup_error(header) ==
  IF DATE \notin header THEN "KeyError"
  ELSE IF required_cols \ header # {} THEN "ValueError"
  ELSE "none"

\* DatabaseManager(setup_database(csv_path)).
Load ==
  /\ pc = "start"
  /\ IF setup_error(csv.header) # "none"
     THEN /\ pc' = "failed"
          /\ result' = Raised(setup_error(csv.header))
          /\ UNCHANGED <<data, columns>>
     ELSE /\ \E df \in setup_database(csv) :
               data' \in DatabaseManager_init(df, setup_columns(csv.header))
          /\ columns' = setup_columns(csv.header) \cup {STOCKOUT}
          /\ pc' = "ready"
          /\ result' = None
  /\ op' = [name |-> "load"]
  /\ UNCHANGED <<csv, nAppends, new_record>>

\* --------------------------------------------------- add_production_record
\* The calls of add_production_record: <<product, date, stock_level,
\* sold_units, promotion_active>>; production_units, temp_celsius and
\* weather_condition keep their defaults (0, None, None).  They cover a date
\* before and after the stored ones, a zero, a negative and a positive stock
\* level, a negative sold value and both promotion values.
AppendCalls ==
  { <<"A", "2024-01-01", 0, 1, 0>>,
    <<"A", "2024-01-03", 0 - 1, 1, 1>>,
    <<"B", "2024-01-01", 3, 0 - 1, 0>>,
    <<"B", "2024-01-03", 0, 2, 1>> }

\* The keys of the new_record literal (lines 141-151).
new_record_keys ==
  {P_TYPE, DATE, STOCK, SOLD, PRODUCTION, TEMP, WEATHER, PROMO, STOCKOUT}

\* self.data[self.data['Product type'] == product]
product_data(df, product) == SelectSeq(df, LAMBDA r : r[P_TYPE] = product)

\* Mutant of carry_forward: the last row of the frame, of whatever product.
carry_forward_any_product(df, product, col) ==
  IF Len(df) > 0 THEN df[Len(df)][col] ELSE Missing(col)

\* Lines 154-161: the value given to a column of the frame that is not a key
\* of new_record: the cell of the last row of the product, None without one.
carry_forward(df, product, col) ==
  LET pd == product_data(df, product)
  IN IF Len(pd) > 0 THEN pd[Len(pd)][col] ELSE Missing(col)

\* Mutant of make_new_record: the stockout flag is carried forward like the
\* columns that are not arguments.
make_new_record_flag_carried(df, cols, product, date, stock_level, sold_units, promo) ==
  [c \in AllColumns |->
     CASE c = P_TYPE -> product
       [] c = DATE -> to_datetime(date)
       [] c = STOCK -> stock_level
       [] c = SOLD -> sold_units
       [] c = PRODUCTION -> 0
       [] c = TEMP -> NaN
       [] c = WEATHER -> NaNText
       [] c = PROMO -> promo
       [] c = STOCKOUT ->
            IF Len(product_data(df, product)) > 0
            THEN carry_forward(df, product, c)
            ELSE IF stock_level = 0 THEN 1 ELSE 0
       [] OTHER -> IF c \in cols THEN carry_forward(df, product, c)
                                ELSE Missing(c)]

\* Lines 141-161: the row that is appended.
make_new_record(df, cols, product, date, stock_level, sold_units, promo) ==
  [c \in AllColumns |->
     CASE c = P_TYPE -> product
       [] c = DATE -> to_datetime(date)
       [] c = STOCK -> stock_level
       [] c = SOLD -> sold_units
       [] c = PRODUCTION -> 0
       [] c = TEMP -> NaN
       [] c = WEATHER -> NaNText
       [] c = PROMO -> promo
       [] c = STOCKOUT -> IF stock_level = 0 THEN 1 ELSE 0
       [] OTHER -> IF c \in cols THEN carry_forward(df, product, c)
                                ELSE Missing(c)]

\* Mutant of concat: a row of the same product and date is replaced.
concat_replacing(df, rec) ==
  Append(SelectSeq(df, LAMBDA r : ~(r[P_TYPE] = rec[P_TYPE]
                                     /\ r[DATE] = rec[DATE])), rec)

\* pd.concat([self.data, new_df], ignore_index=True) (line 167): the rows of
\* the store followed by the new row.
concat(df, rec) == Append(df, rec)

\* Lines 163-168: pd.concat gives the frame the union of the columns (the old
\* rows get NaN in a column they did not have), then the frame is sorted.
add_production_record(product, date, stock_level, sold_units, promo) ==
  /\ pc = "ready"
  /\ nAppends < MaxAppends
  /\ LET rec == make_new_record(data, columns, product, date,
                                 stock_level, sold_units, promo)
     IN /\ data' \in sort_values(concat(data, rec))
        /\ new_record' = <<rec>>
  /\ columns' = columns \cup new_record_keys
  /\ nAppends' = nAppends + 1
  /\ op' = [name |-> "add_production_record", product |-> product,
            date |-> date, stock_level |-> stock_level,
            sold_units |-> sold_units, promotion_active |-> promo]
  /\ result' = None
  /\ UNCHANGED <<pc, csv>>

AddRecord ==
  \E c \in AppendCalls : add_production_record(c[1], c[2], c[3], c[4], c[5])

\* ------------------------------------------------------------- the queries
NoProduct == ""            \* product=None: `if product:` is false
QueryProducts == {"A", "B"}
QueryPeriods == {1, DEFAULT_PERIOD}

Frame(rows) == [kind |-> "frame", rows |-> rows]

\* Mutant of get_inventory_data: the period is counted back from the latest
\* date of the whole frame.
get_inventory_data_global_max(df, product, period_days) ==
  LET byProduct == IF product # NoProduct
                   THEN SelectSeq(df, LAMBDA r : r[P_TYPE] = product)
                   ELSE df
  IN IF Len(byProduct) > 0
     THEN LET end_date == Max({ df[i][DATE] : i \in DOMAIN df })
              start_date == end_date - period_days
          IN SelectSeq(byProduct, LAMBDA r : r[DATE] >= start_date)
     ELSE byProduct

\* get_inventory_data (lines 111-123) on the frame df.
get_inventory_data(df, product, period_days) ==
  LET byProduct == IF product # NoProduct
                   THEN SelectSeq(df, LAMBDA r : r[P_TYPE] = product)
                   ELSE df
  IN IF Len(byProduct) > 0
     THEN LET end_date == Max({ byProduct[i][DATE] : i \in DOMAIN byProduct })
              start_date == end_date - period_days
          IN SelectSeq(byProduct, LAMBDA r : r[DATE] >= start_date)
     ELSE byProduct

\* The stats dictionary of get_product_stats (lines 188-207) for a window
\* that has a row; 'Revenue generated' is not a column of the modelled
\* vocabulary.
stats_of(w, cols) ==
  [kind |-> "stats",
   total_sales |-> Sum(w, SOLD),
   avg_daily_sales |-> Mean(w, SOLD),
   current_stock |-> w[Len(w)][STOCK],
   min_stock |-> Min(Range(Column(w, STOCK))),
   max_stock |-> Max(Range(Column(w, STOCK))),
   stockout_days |->
     IF STOCKOUT \in cols
     THEN Len(SelectSeq(w, LAMBDA r : r[STOCKOUT] = 1)) ELSE 0,
   avg_price |-> IF PRICE \in cols THEN Mean(w, PRICE) ELSE None,
   total_production |->
     IF PRODUCTION \in cols THEN Sum(w, PRODUCTION) ELSE NaN]

\* Mutant of get_product_stats: without the test of line 185 the iloc[-1] of
\* line 191 raises IndexError on a window that has no row.
get_product_stats_unguarded(df, cols, product, period_days) ==
  LET w == get_inventory_data(df, product, period_days)
  IN IF Len(w) = 0 THEN Raised("IndexError") ELSE stats_of(w, cols)

\* get_product_stats (lines 183-207).
get_product_stats(df, cols, product, period_days) ==
  LET w == get_inventory_data(df, product, period_days)
  IN IF Len(w) = 0 THEN None ELSE stats_of(w, cols)

\* get_all_products (line 216): unique() keeps the order of first appearance.
RECURSIVE unique(_)
unique(s) ==
  IF s = <<>> THEN <<>>
  ELSE LET rest == unique(SubSeq(s, 1, Len(s) - 1))
           last == s[Len(s)]
       IN IF last \in Range(rest) THEN rest ELSE Append(rest, last)

get_all_products(df) == unique([i \in DOMAIN df |-> df[i][P_TYPE]])

\* Mutant of get_stockout_history: the rows of stock level 0, whatever their
\* flag.
get_stockout_history_by_stock(df, cols, product, period_days) ==
  LET w == get_inventory_data(df, product, period_days)
  IN SelectSeq(w, LAMBDA r : r[STOCK] = 0)

\* get_stockout_history (lines 275-282).
get_stockout_history(df, cols, product, period_days) ==
  LET w == get_inventory_data(df, product, period_days)
  IN IF STOCKOUT \in cols
     THEN SelectSeq(w, LAMBDA r : r[STOCKOUT] = 1)
     ELSE SelectSeq(w, LAMBDA r : r[STOCK] = 0)

\* round(num/den, digits) as a number of 10^-digits units (scale = 10^digits),
\* halves to the even neighbour; den > 0.
round(num, den, scale) ==
  LET n == num * scale
      q == n \div den
      r == n % den
  IN IF 2 * r < den THEN q
     ELSE IF 2 * r > den THEN q + 1
     ELSE IF q % 2 = 0 THEN q ELSE q + 1

\* get_sales_by_condition (lines 295-306): one group per weather label of
\* the window (groupby drops the missing labels); the mean in hundredths.
get_sales_by_condition(df, cols, product, period_days) ==
  LET w == get_inventory_data(df, product, period_days)
      labels == { w[i][WEATHER] : i \in DOMAIN w } \ {NaNText}
      group(l) == SelectSeq(w, LAMBDA r : r[WEATHER] = l)
  IN IF WEATHER \notin cols THEN None
     ELSE [kind |-> "groups",
           groups |-> [l \in labels |->
             [total_sales |-> Sum(group(l), SOLD),
              avg_daily_sales |->
                IF Len(Column(group(l), SOLD)) = 0 THEN NaN
                ELSE round(Sum(group(l), SOLD), Len(Column(group(l), SOLD)), 100),
              days |-> Len(Column(group(l), SOLD))]]]

\* get_promotion_impact (lines 319-339).  uplift_percent is
\* (mean_with / mean_without - 1) * 100 as the fraction num/den with
\* den = n_with * sum_without: den = 0 when the division by mean_without
\* is a division by zero (numpy then gives inf or nan).
get_promotion_impact(df, cols, product, period_days) ==
  LET w == get_inventory_data(df, product, period_days)
      with_promo == SelectSeq(w, LAMBDA r : r[PROMO] = 1)
      without_promo == SelectSeq(w, LAMBDA r : r[PROMO] = 0)
      mw == Mean(with_promo, SOLD)
      mo == Mean(without_promo, SOLD)
  IN IF PROMO \notin cols THEN None
     ELSE IF Len(with_promo) = 0 \/ Len(without_promo) = 0 THEN None
     ELSE [kind |-> "impact",
           avg_sales_with_promo |-> mw,
           avg_sales_without_promo |-> mo,
           promo_days |-> Len(with_promo),
           regular_days |-> Len(without_promo),
           uplift_percent |->
             [num |-> 100 * (mw.sum * mo.n - mw.n * mo.sum),
              den |-> mw.n * mo.sum]]

\* The filters search_records is called with: a sequence of entries
\* [column, list, value], list telling a list or tuple value (membership)
\* from a scalar one (equality).  "Supplier name" is a column no frame of the
\* model has.
SearchFilters ==
  << <<[column |-> P_TYPE, list |-> FALSE, value |-> "A"]>>,
     <<[column |-> P_TYPE, list |-> TRUE, value |-> {"A", "B"}],
       [column |-> STOCKOUT, list |-> FALSE, value |-> 1]>>,
     <<[column |-> "Supplier name", list |-> FALSE, value |-> "x"],
       [column |-> PROMO, list |-> TRUE, value |-> {1}]>> >>

\* search_records (lines 351-360): the filters are applied one after the
\* other; a filter on a column the frame does not have is skipped.
RECURSIVE search_records(_, _, _)
search_records(df, cols, filters) ==
  IF filters = <<>> THEN df
  ELSE LET f == Head(filters)
           kept == IF f.column \in cols
                   THEN IF f.list
                        THEN SelectSeq(df, LAMBDA r : r[f.column] \in f.value)
                        ELSE SelectSeq(df, LAMBDA r : r[f.column] = f.value)
                   ELSE df
       IN search_records(kept, cols, Tail(filters))

\* get_date_range (lines 225-229); min and max of no date are NaT.
get_date_range(df) ==
  LET dates == { df[i][DATE] : i \in DOMAIN df }
  IN IF dates = {} THEN [start |-> NaN, end |-> NaN, days |-> NaN]
     ELSE [start |-> Min(dates), end |-> Max(dates),
           days |-> Max(dates) - Min(dates)]

\* get_summary_stats (lines 369-386); groupby(...).last() takes the last
\* present stock level of each product.
get_summary_stats(df, cols) ==
  LET products == { df[i][P_TYPE] : i \in DOMAIN df }
      last_stock(p) ==
        LET c == Column(product_data(df, p), STOCK)
        IN IF Len(c) = 0 THEN 0 ELSE c[Len(c)]
      RECURSIVE total(_)
      total(S) == IF S = {} THEN 0
                  ELSE LET p == CHOOSE x \in S : TRUE
                       IN last_stock(p) + total(S \ {p})
  IN [kind |-> "summary",
      total_records |-> Len(df),
      total_products |-> Cardinality(products),
      date_range |-> get_date_range(df),
      total_sales |-> Sum(df, SOLD),
      avg_daily_sales |-> Mean(df, SOLD),
      total_stock |-> total(products),
      stockout_incidents |->
        IF STOCKOUT \in cols
        THEN Len(SelectSeq(df, LAMBDA r : r[STOCKOUT] = 1)) ELSE 0,
      total_production |->
        IF PRODUCTION \in cols THEN Sum(df, PRODUCTION) ELSE NaN]

\* -------------------------------------------------- get_low_stock_products
\* Mutant of low_stock_guard: >= 0 for > 0.
low_stock_guard_zero_passes(stats) ==
  /\ stats.kind = "stats"
  /\ stats.avg_daily_sales.n > 0
  /\ stats.avg_daily_sales.sum >= 0

\* Line 416: `if stats and stats['avg_daily_sales'] > 0`; the mean of no
\* value is NaN, which is not > 0.
low_stock_guard(stats) ==
  /\ stats.kind = "stats"
  /\ stats.avg_daily_sales.n > 0
  /\ stats.avg_daily_sales.sum > 0

\* Line 419: days_of_stock < threshold_days with
\* days_of_stock = current_stock / avg_daily_sales, for a mean that is > 0.
below_threshold(stats, threshold_days) ==
  stats.current_stock * stats.avg_daily_sales.n
    < threshold_days * stats.avg_daily_sales.sum

\* Lines 420-425: days_of_stock in tenths, avg_daily_sales in hundredths
\* (a division by a zero mean gives inf or nan, which rounds to itself).
low_stock_entry(product, stats) ==
  [product |-> product,
   current_stock |-> stats.current_stock,
   days_of_stock |-> IF stats.avg_daily_sales.sum = 0 THEN NaN
                     ELSE round(stats.current_stock * stats.avg_daily_sales.n,
                                stats.avg_daily_sales.sum, 10),
   avg_daily_sales |-> round(stats.avg_daily_sales.sum,
                             stats.avg_daily_sales.n, 100)]

\* Mutant of sorted: an entry goes before the entries of equal key.
RECURSIVE sorted_ties_reversed(_)
sorted_ties_reversed(s) ==
  IF s = <<>> THEN <<>>
  ELSE LET front == sorted_ties_reversed(SubSeq(s, 1, Len(s) - 1))
           x == s[Len(s)]
           k == Cardinality({ i \in DOMAIN front :
                               front[i].days_of_stock < x.days_of_stock })
       IN SubSeq(front, 1, k) \o <<x>> \o SubSeq(front, k + 1, Len(front))

\* sorted(low_stock, key=lambda x: x['days_of_stock']) (line 427): Python's
\* sort is stable.
RECURSIVE sorted(_)
sorted(s) ==
  IF s = <<>> THEN <<>>
  ELSE LET front == sorted(SubSeq(s, 1, Len(s) - 1))
           x == s[Len(s)]
           k == Cardinality({ i \in DOMAIN front :
                               front[i].days_of_stock <= x.days_of_stock })
       IN SubSeq(front, 1, k) \o <<x>> \o SubSeq(front, k + 1, Len(front))

\* Lines 411-427.  divisors lists the values of stats['avg_daily_sales'] that
\* line 417 divides by, in the order of the loop.
get_low_stock_products(df, cols, threshold_days) ==
  LET products == get_all_products(df)
      stats(i) == get_product_stats(df, cols, products[i], LOW_STOCK_PERIOD)
      passing == SelectSeq([i \in DOMAIN products |-> i],
                           LAMBDA i : low_stock_guard(stats(i)))
      listed == SelectSeq(passing,
                          LAMBDA i : below_threshold(stats(i), threshold_days))
  IN [kind |-> "low_stock",
      entries |-> sorted([j \in DOMAIN listed |->
                            low_stock_entry(products[listed[j]], stats(listed[j]))]),
      divisors |-> [j \in DOMAIN passing |-> stats(passing[j]).avg_daily_sales]]

Thresholds == {1, DEFAULT_THRESHOLD}

\* ------------------------------------------------------- the query actions
\* A query works on a copy or a selection of self.data (lines 111, 275, 319,
\* 351) and assigns nothing to self.
Query(o, r) ==
  /\ pc = "ready"
  /\ op' = o
  /\ result' = r
  /\ UNCHANGED <<pc, csv, data, columns, nAppends, new_record>>

\* Mutant of Window: the filtered frame is assigned to self.data.
Window_in_place ==
  \E product \in QueryProducts \cup {NoProduct}, days \in QueryPeriods :
    /\ pc = "ready"
    /\ op' = [name |-> "get_inventory_data", product |-> product,
              period_days |-> days]
    /\ result' = Frame(get_inventory_data(data, product, days))
    /\ data' = get_inventory_data(data, product, days)
    /\ UNCHANGED <<pc, csv, columns, nAppends, new_record>>

Window ==
  \E product \in QueryProducts \cup {NoProduct}, days \in QueryPeriods :
    Query([name |-> "get_inventory_data", product |-> product,
           period_days |-> days],
          Frame(get_inventory_data(data, product, days)))

ProductStats ==
  \E product \in QueryProducts, days \in QueryPeriods \cup {LOW_STOCK_PERIOD} :
    Query([name |-> "get_product_stats", product |-> product,
           period_days |-> days],
          get_product_stats(data, columns, product, days))

StockoutHistory ==
  \E product \in QueryProducts \cup {NoProduct}, days \in QueryPeriods :
    Query([name |-> "get_stockout_history", product |-> product,
           period_days |-> days],
          Frame(get_stockout_history(data, columns, product, days)))

SalesByCondition ==
  \E product \in QueryProducts, days \in {DEFAULT_PERIOD} :
    Query([name |-> "get_sales_by_condition", product |-> product,
           period_days |-> days],
          get_sales_by_condition(data, columns, product, days))

PromotionImpact ==
  \E product \in QueryProducts, days \in QueryPeriods :
    Query([name |-> "get_promotion_impact", product |-> product,
           period_days |-> days],
          get_promotion_impact(data, columns, product, days))

Search ==
  \E f \in DOMAIN SearchFilters :
    Query([name |-> "search_records", filters |-> f],
          Frame(search_records(data, columns, SearchFilters[f])))

Summary ==
  Query([name |-> "get_summary_stats"], get_summary_stats(data, columns))

LowStock ==
  \E threshold_days \in Thresholds :
    Query([name |-> "get_low_stock_products",
           threshold_days |-> threshold_days],
          get_low_stock_products(data, columns, threshold_days))

\* ------------------------------------------------------------- backup_data
\* DataFrame.to_csv(filepath, index=False): one line per row with the cells
\* of the columns of the frame; a date is written as its text, a missing
\* cell as an empty cell (which read_csv reads as missing), a number as
\* its digits.
to_csv(df, cols) ==
  [kind |-> "file",
   header |-> cols,
   rows |-> [i \in DOMAIN df |->
               [c \in AllColumns |->
                  IF c \notin cols THEN Missing(c)
                  ELSE IF c = DATE THEN DateTexts[df[i][c]]
                  ELSE df[i][c]]]]

\* backup_data (lines 395-399): the file that is written, or, when to_csv
\* raises, the return of the except clause, which prints the error and
\* ends the call normally.
backup_data(df, cols, write_fails) ==
  IF write_fails THEN None ELSE to_csv(df, cols)

\* result holds the file the call has written.
Backup ==
  \E write_fails \in BOOLEAN :
    Query([name |-> "backup_data", write_fails |-> write_fails],
          backup_data(data, columns, write_fails))

\* DatabaseManager(setup_database(filepath)) on the file that backup_data
\* has just written: a second store, next to the one that was saved.
LoadBackup ==
  /\ pc = "ready"
  /\ op.name = "backup_data"
  /\ result.kind = "file"
  /\ setup_error(result.header) = "none"
  /\ \E df \in setup_database(result) :
       \E d \in DatabaseManager_init(df, setup_columns(result.header)) :
         result' = [kind |-> "store", data |-> d,
                    columns |-> setup_columns(result.header) \cup {STOCKOUT}]
  /\ op' = [name |-> "load_backup"]
  /\ UNCHANGED <<pc, csv, data, columns, nAppends, new_record>>

Next ==
  \/ Load
  \/ AddRecord
  \/ Window
  \/ ProductStats
  \/ StockoutHistory
  \/ SalesByCondition
  \/ PromotionImpact
  \/ Search
  \/ Summary
  \/ LowStock
  \/ Backup
  \/ LoadBackup

Spec == Init /\ [][Next]_vars

\* ================================================================== claims
IsLoaded == op.name = "load" /\ pc = "ready"
IsAppended == op.name = "add_production_record"
RawStocks == { csv.rows[i][STOCK] : i \in DOMAIN csv.rows }
RawSolds == { csv.rows[i][SOLD] : i \in DOMAIN csv.rows }

\* C1: after the load of a file that has no stockout-flag column, every
\* record of the store has stockout flag 1 exactly when its stored (clipped)
\* stock level is 0.
C1_FlagIffStoredStockZero ==
  (IsLoaded /\ STOCKOUT \notin csv.header) =>
    \A i \in DOMAIN data : (data[i][STOCKOUT] = 1) <=> (data[i][STOCK] = 0)

\* C2: after the load every record has stock level >= 0 and sold units >= 0;
\* no row is dropped, and a row is stored with its raw value when that is
\* >= 0 and with 0 when it is negative.
C2_NonNegativeAfterLoad ==
  IsLoaded =>
    /\ \A i \in DOMAIN data : data[i][STOCK] >= 0 /\ data[i][SOLD] >= 0
    /\ Len(data) = Len(csv.rows)
    /\ \E p \in Perms(DOMAIN csv.rows) : \A i \in DOMAIN data :
         LET raw == csv.rows[p[i]]
         IN /\ data[i][P_TYPE] = raw[P_TYPE]
            /\ data[i][DATE] = to_datetime(raw[DATE])
            /\ data[i][STOCK] = (IF raw[STOCK] < 0 THEN 0 ELSE raw[STOCK])
            /\ IsNum(raw[SOLD]) =>
                 data[i][SOLD] = (IF raw[SOLD] < 0 THEN 0 ELSE raw[SOLD])

C2_Witness ==
  /\ IsLoaded
  /\ \E v \in RawStocks : v < 0
  /\ \E v \in RawSolds : IsNum(v) /\ v < 0

\* C3: in every state the records of the store are in non-decreasing date
\* order.
C3_SortedByDate == IsSortedByDate(data)

C3_Witness ==
  /\ IsAppended
  /\ Len(data) >= 3
  /\ \E i \in DOMAIN data : new_record[1][DATE] < data[i][DATE]
  /\ \E i, j \in DOMAIN csv.rows :
       i < j /\ to_datetime(csv.rows[i][DATE]) > to_datetime(csv.rows[j][DATE])

\* C4: get_inventory_data(product, period_days) returns, in the order of the
\* store and so by ascending date, exactly the records that pass the product
\* filter and have their date in [max_date - period_days, max_date], where
\* max_date is the greatest date among the records that pass the filter; it
\* returns no record when none passes the filter.
C4_Passes(r) == op.product = NoProduct \/ r[P_TYPE] = op.product
C4_MaxDate ==
  Max({ data[i][DATE] : i \in { j \in DOMAIN data : C4_Passes(data[j]) } })
C4_InWindow(r) ==
  /\ C4_Passes(r)
  /\ C4_MaxDate - op.period_days <= r[DATE]
  /\ r[DATE] <= C4_MaxDate
C4_WindowOfFilteredMax ==
  op.name = "get_inventory_data" =>
    /\ result.kind = "frame"
    /\ IsSortedByDate(result.rows)
    /\ IF \E i \in DOMAIN data : C4_Passes(data[i])
       THEN result.rows = SelectSeq(data, C4_InWindow)
       ELSE result.rows = <<>>

\* A product whose latest record is older than the period counted back from
\* the latest date of the store.
C4_Witness ==
  /\ op.name = "get_inventory_data"
  /\ op.product # NoProduct
  /\ \E i \in DOMAIN result.rows : \E j \in DOMAIN data :
       result.rows[i][DATE] < data[j][DATE] - op.period_days

\* C5: get_promotion_impact never divides by a zero mean of the
\* non-promotion records: it returns None or an uplift computed from a
\* non-zero mean; and it returns None when the promotion partition or the
\* non-promotion partition of the window is empty.
C5_NoDivisionByZeroMean ==
  op.name = "get_promotion_impact" =>
    LET w == get_inventory_data(data, op.product, op.period_days)
    IN /\ result.kind = "impact" =>
            /\ result.avg_sales_without_promo.n > 0
            /\ result.avg_sales_without_promo.sum # 0
       /\ ((\A i \in DOMAIN w : w[i][PROMO] # 1)
             \/ (\A i \in DOMAIN w : w[i][PROMO] # 0)) => result.kind = "None"

\* C6: get_low_stock_products lists no product whose 30-day statistics are
\* absent or whose 30-day mean of sold units is zero, and divides by no zero
\* mean.
C6_NoZeroMeanListed ==
  op.name = "get_low_stock_products" =>
    /\ \A i \in DOMAIN result.entries :
         LET st == get_product_stats(data, columns, result.entries[i].product,
                                     LOW_STOCK_PERIOD)
         IN /\ st.kind = "stats"
            /\ st.avg_daily_sales.n > 0
            /\ st.avg_daily_sales.sum # 0
    /\ \A i \in DOMAIN result.divisors :
         result.divisors[i].n > 0 /\ result.divisors[i].sum # 0

\* A product with stock left and no sale is in the store, and another product
\* is listed.
C6_Witness ==
  /\ op.name = "get_low_stock_products"
  /\ result.entries # <<>>
  /\ \E p \in QueryProducts :
       LET st == get_product_stats(data, columns, p, LOW_STOCK_PERIOD)
       IN /\ st.kind = "stats"
          /\ st.avg_daily_sales.sum = 0
          /\ st.current_stock > 0

\* C7: the entries of get_low_stock_products are in non-decreasing order of
\* the reported days_of_stock, and entries of equal days_of_stock are in the
\* order of get_all_products (first appearance in the store).
C7_Position(p) ==
  CHOOSE k \in DOMAIN get_all_products(data) : get_all_products(data)[k] = p
C7_SortedStable ==
  op.name = "get_low_stock_products" =>
    \A i, j \in DOMAIN result.entries : i < j =>
      /\ result.entries[i].days_of_stock <= result.entries[j].days_of_stock
      /\ result.entries[i].days_of_stock = result.entries[j].days_of_stock
           => C7_Position(result.entries[i].product)
                < C7_Position(result.entries[j].product)

C7_Witness ==
  /\ op.name = "get_low_stock_products"
  /\ Len(result.entries) = 2
  /\ result.entries[1].days_of_stock = result.entries[2].days_of_stock

\* A later product of the iteration comes first in the output.
C7_WitnessReordered ==
  /\ op.name = "get_low_stock_products"
  /\ Len(result.entries) = 2
  /\ C7_Position(result.entries[1].product)
       > C7_Position(result.entries[2].product)

\* C8: add_production_record gives a column of the store that is not one of
\* the keys it sets the value that the latest record of the same product has
\* (a record of that product with its greatest date) when the store holds a
\* record of the product, and the missing value when it holds none.
C8_CarryForward ==
  [][nAppends' = nAppends + 1 =>
       LET rec == new_record'[1]
           prior == product_data(data, rec[P_TYPE])
           latest == { prior[i] : i \in { k \in DOMAIN prior :
                         \A j \in DOMAIN prior : prior[j][DATE] <= prior[k][DATE] } }
       IN \A c \in columns \ new_record_keys :
            IF Len(prior) > 0
            THEN \E r \in latest : rec[c] = r[c]
            ELSE rec[c] = Missing(c)]_vars

\* A price was carried forward while another product has another price.
C8_Witness ==
  /\ IsAppended
  /\ PRICE \in columns
  /\ IsNum(new_record[1][PRICE])
  /\ \E i \in DOMAIN data :
       /\ data[i][P_TYPE] # new_record[1][P_TYPE]
       /\ IsNum(data[i][PRICE])
       /\ data[i][PRICE] # new_record[1][PRICE]

\* The product had no record: nothing is carried forward.
C8_WitnessNoPrior ==
  /\ IsAppended
  /\ PRICE \in columns
  /\ ~IsNum(new_record[1][PRICE])
  /\ Len(data) >= 2

\* C9: the record inserted by add_production_record has stockout flag 1
\* exactly when the stock_level argument is 0, whatever the flags of the
\* earlier records of the product.
C9_FlagFromArgument ==
  IsAppended =>
    /\ \E i \in DOMAIN data : data[i] = new_record[1]
    /\ (new_record[1][STOCKOUT] = 1) <=> (op.stock_level = 0)

\* The inserted record and an earlier record of the product differ in flag.
C9_Witness ==
  /\ IsAppended
  /\ \E i \in DOMAIN data :
       /\ data[i][P_TYPE] = new_record[1][P_TYPE]
       /\ data[i][STOCKOUT] # new_record[1][STOCKOUT]

\* C10: a query leaves the rows of the store, their order and the column
\* set as they were.
QueryNames ==
  {"get_inventory_data", "get_product_stats", "get_stockout_history",
   "get_sales_by_condition", "get_promotion_impact", "search_records",
   "get_summary_stats", "get_low_stock_products"}
C10_QueriesLeaveStore ==
  [][op'.name \in QueryNames => data' = data /\ columns' = columns]_vars

\* A query that returned fewer rows than the store holds.
C10_Witness ==
  /\ op.name \in {"get_inventory_data", "search_records"}
  /\ Len(result.rows) < Len(data)
  /\ Len(result.rows) > 0

\* C12: the load of a file that lacks one of the four required columns fails
\* with the error of the missing-column validation (the ValueError of line
\* 37) and builds no store.
C12_MissingColumnIsSchemaError ==
  (op.name = "load" /\ required_cols \ csv.header # {}) =>
    /\ pc = "failed"
    /\ data = <<>>
    /\ result = Raised("ValueError")

\* C11: when the write fails, backup_data ends with the error raised to the
\* caller; it does not return normally.
C11_WriteFailureRaises ==
  (op.name = "backup_data" /\ op.write_fails) => result.kind = "raised"

\* C13: the store loaded from the file that backup_data wrote has as many
\* records as the saved store, in the same order, with the same value in
\* every field.
C13_RoundTrip ==
  op.name = "load_backup" =>
    /\ Len(result.data) = Len(data)
    /\ \A i \in DOMAIN data : \A c \in columns :
         result.data[i][c] = data[i][c]

\* C14: for a product that has no record in the store no query raises:
\* get_inventory_data and get_stockout_history return no row,
\* get_product_stats and get_promotion_impact return None, search_records
\* on that product returns no row and get_low_stock_products lists only
\* products of the store.
C14_Absent(p) == p # NoProduct /\ \A i \in DOMAIN data : data[i][P_TYPE] # p
C14_NoDataIsNotAnError ==
  /\ op.name \in QueryNames => result.kind # "raised"
  /\ (op.name \in {"get_inventory_data", "get_stockout_history"}
       /\ C14_Absent(op.product)) =>
        result.kind = "frame" /\ result.rows = <<>>
  /\ (op.name \in {"get_product_stats", "get_promotion_impact"}
       /\ C14_Absent(op.product)) => result.kind = "None"
  /\ (op.name = "search_records" /\ op.filters = 1 /\ C14_Absent("A")) =>
        result.kind = "frame" /\ result.rows = <<>>
  /\ op.name = "get_low_stock_products" =>
        \A i \in DOMAIN result.entries :
          ~C14_Absent(result.entries[i].product)

\* The statistics of a product the store, which has records, does not hold.
C14_Witness ==
  /\ op.name = "get_product_stats"
  /\ C14_Absent(op.product)
  /\ Len(data) > 0

\* C15: get_stockout_history returns the rows of the window whose stockout
\* flag is 1, in the order of the window, and the stockout_days of
\* get_product_stats is their number; in the scenario (product A, stock
\* levels 10, 5, 0, 5 units sold a day) the history of 90 days is the record
\* of the third day and the statistics of 30 days are current_stock 0,
\* stockout_days 1, avg_daily_sales 5.
C15_InScenario == csv = ScenarioFile /\ nAppends = 0
C15_StockoutHistory ==
  /\ op.name = "get_stockout_history" =>
       result.rows =
         SelectSeq(get_inventory_data(data, op.product, op.period_days),
                   LAMBDA r : r[STOCKOUT] = 1)
  /\ (op.name = "get_product_stats" /\ result.kind = "stats") =>
       result.stockout_days =
         Len(SelectSeq(get_inventory_data(data, op.product, op.period_days),
                       LAMBDA r : r[STOCKOUT] = 1))
  /\ (C15_InScenario /\ op.name = "get_stockout_history"
       /\ op.product = "A" /\ op.period_days = DEFAULT_PERIOD) =>
        /\ Len(result.rows) = 1
        /\ result.rows[1][DATE] = to_datetime("2024-01-03")
        /\ result.rows[1][STOCK] = 0
  /\ (C15_InScenario /\ op.name = "get_product_stats"
       /\ op.product = "A" /\ op.period_days = LOW_STOCK_PERIOD) =>
        /\ result.kind = "stats"
        /\ result.current_stock = 0
        /\ result.stockout_days = 1
        /\ result.avg_daily_sales.n > 0
        /\ result.avg_daily_sales.sum = 5 * result.avg_daily_sales.n

C15_Witness ==
  /\ C15_InScenario
  /\ op.name = "get_stockout_history"
  /\ op.product = "A"
  /\ op.period_days = DEFAULT_PERIOD
  /\ Len(result.rows) = 1

\* The statistics of the scenario.
C15_WitnessStats ==
  /\ C15_InScenario
  /\ op.name = "get_product_stats"
  /\ op.product = "A"
  /\ op.period_days = LOW_STOCK_PERIOD
  /\ result.kind = "stats"

\* C16: in every state of the store every record has stock level >= 0 and
\* sold units >= 0, also after add_production_record was given a negative
\* value.
C16_NonNegativeAlways ==
  pc = "ready" =>
    \A i \in DOMAIN data : data[i][STOCK] >= 0 /\ data[i][SOLD] >= 0

\* C17: once add_production_record has added a record of product P with a
\* date later than the date of every other record of P, and until the next
\* call of it, get_inventory_data(P, days) ends with that record and
\* get_product_stats(P, days) reports its stock level as current_stock.
C17_AppendedLatest ==
  /\ Len(new_record) = 1
  /\ Cardinality({ i \in DOMAIN data :
                     /\ data[i][P_TYPE] = new_record[1][P_TYPE]
                     /\ data[i][DATE] >= new_record[1][DATE] }) = 1
C17_QueriesSeeAppend ==
  C17_AppendedLatest =>
    /\ (op.name = "get_inventory_data"
         /\ op.product = new_record[1][P_TYPE]) =>
          /\ result.rows # <<>>
          /\ result.rows[Len(result.rows)] = new_record[1]
    /\ (op.name = "get_product_stats"
         /\ op.product = new_record[1][P_TYPE]) =>
          /\ result.kind = "stats"
          /\ result.current_stock = new_record[1][STOCK]

\* The window holds an older record of the product before the new one.
C17_Witness ==
  /\ C17_AppendedLatest
  /\ op.name = "get_inventory_data"
  /\ op.product = new_record[1][P_TYPE]
  /\ Len(result.rows) >= 2

\* C18: the construction of the store keeps one record for each row of the
\* file, and add_production_record adds one record and leaves every record
\* the store held as it was, also when a record of the same product and
\* date is in the store.
C18_Count(s, r) == Cardinality({ i \in DOMAIN s : s[i] = r })
C18_Without(s, k) == SubSeq(s, 1, k - 1) \o SubSeq(s, k + 1, Len(s))
C18_SameRecords(s, t) ==
  /\ Len(s) = Len(t)
  /\ \A r \in Range(s) \cup Range(t) : C18_Count(s, r) = C18_Count(t, r)
C18_NothingMergedOrRemoved ==
  [][/\ (op'.name = "load" /\ pc = "start" /\ pc' = "ready") =>
          Len(data') = Len(csv.rows)
     /\ nAppends' = nAppends + 1 =>
          /\ Len(data') = Len(data) + 1
          /\ \E k \in DOMAIN data' :
               /\ data'[k] = new_record'[1]
               /\ C18_SameRecords(C18_Without(data', k), data)]_vars

\* The new record has the product and the date of a record of the store.
C18_Witness ==
  /\ IsAppended
  /\ \E i, j \in DOMAIN data :
       /\ i # j
       /\ data[i] = new_record[1]
       /\ data[j][P_TYPE] = data[i][P_TYPE]
       /\ data[j][DATE] = data[i][DATE]
====
